---- MODULE Spec2Model ----
(***************************************************************************)
(* Simon memory game (src/simon.ino): the game loop, the debounced button  *)
(* reader and the high score kept in EEPROM.                               *)
(*                                                                         *)
(* Time.  The sketch keeps absolute millis() readings (lastDebounceTime[], *)
(* inputStartTime) and only ever uses the unsigned difference              *)
(* millis() - reading.  The model keeps that difference: debounceElapsed[b]*)
(* is millis() - lastDebounceTime[b] and sinceInputStart is                *)
(* millis() - inputStartTime.  "reading = millis()" sets the difference to *)
(* 0 and the passing of dt milliseconds adds dt to it.  debounceElapsed is *)
(* only compared with debounceDelay, so it is kept up to debounceDelay + 1.*)
(* The readings themselves (32-bit words, as pairs of 16-bit halves) are   *)
(* followed in SpecClock only, where the differences the sketch computes   *)
(* are compared with the time that has really gone by; the other           *)
(* specifications leave them at their initial values.                      *)
(*                                                                         *)
(* Steps.  loop() is split at its calls: pc is the call about to run.  A   *)
(* polling pass (the for loop over the four buttons) is one step, taken at *)
(* one clock reading.  After a pass that saw no press the environment lets *)
(* dt milliseconds go by and may change one raw level; the passes the      *)
(* program makes in between are left out only where they would change      *)
(* nothing (no pending level becomes acceptable and no deadline is         *)
(* crossed strictly inside dt).  A delay() lets the raw levels change      *)
(* arbitrarily, unobserved.                                                *)
(***************************************************************************)
EXTENDS Integers, Sequences, FiniteSets

\* ---------------------------------------------------------------- constants
LOW == 0
HIGH == 1

NumButtons == 4
INITIAL_SPEED == 1000
SPEED_DECREASE == 50
MIN_SPEED == 250
debounceDelay == 50
InputTimeout == 3000
FeedbackDelay == 200
ByteMod == 256
\* unsigned long is 32 bits wide: two halves of 16 bits
Half == 65536

\* gameSequence[MAX_LEVEL]: 100 in the sketch, scaled down so that the cap is reached
MAX_LEVEL == 2
\* rounds one game may win in Spec and in SpecFine (LevelUp is disabled beyond)
MaxRounds == 4
FineRounds == 1
\* rounds the single game of SpecLong may win: past the speed floor (level 15)
LongRounds == 16
\* a raw level that bounces changes again after DtBounce ms (< debounceDelay)
DtBounce == 20

Buttons == 0 .. (NumButtons - 1)
NoButton == NumButtons
Levels == {LOW, HIGH}
Bytes == 0 .. (ByteMod - 1)
\* the first value of debounceElapsed that is > debounceDelay
Cap == debounceDelay + 1

Min(a, b) == IF a < b THEN a ELSE b
Max(a, b) == IF a > b THEN a ELSE b
Sat(x) == Min(x, Cap)
SetMin(S) == CHOOSE x \in S : \A y \in S : x <= y

VARIABLES
    pc,                  \* the call of setup()/loop() about to run
    eeprom,              \* EEPROM cell EEPROM_HIGH_SCORE
    eepromAtBoot,        \* history: the cell's content at power-up
    highScore,
    currentLevel,
    currentSpeed,
    gameOver,
    gameSequence,
    currentStep,         \* readPlayerSequence: loop variable
    sinceInputStart,     \* readPlayerSequence: millis() - inputStartTime
    pressed,             \* the button the latest polling pass reported, or NoButton
    verdict,             \* how the latest step of readPlayerSequence ended
    currentButtonState,
    lastButtonState,
    debounceElapsed,     \* millis() - lastDebounceTime[b], kept up to Cap
    pins,                \* environment: the raw level digitalRead returns
    rawStable,           \* environment: ms since the raw level last changed, up to Cap
    bounced,             \* environment: the last two changes were < debounceDelay apart
    press,               \* history: -1, or the times readButton returned true (up to 2)
                         \* for the press that began, watched, from an accepted HIGH
    stored,              \* history: symbols addNewStep stored in this game
    lastIndexShown,      \* history: last index displaySequence read in this round, -1 before
    roundsWon,           \* history: calls of levelUp in this game
    maxLevel,            \* history: highest currentLevel since power-up
    millis,              \* SpecClock: the reading of millis(), a 32-bit word
    inputStartTime,      \* SpecClock: readPlayerSequence's local, a 32-bit word
    lastDebounceTime     \* SpecClock: the array of 32-bit words

vars == << pc, eeprom, eepromAtBoot, highScore, currentLevel, currentSpeed, gameOver,
           gameSequence, currentStep, sinceInputStart, pressed, verdict,
           currentButtonState, lastButtonState, debounceElapsed, pins, rawStable,
           bounced, press, stored, lastIndexShown, roundsWon, maxLevel,
           millis, inputStartTime, lastDebounceTime >>

gameVars == << eeprom, eepromAtBoot, highScore, currentLevel, currentSpeed, gameOver,
               gameSequence, stored, roundsWon, maxLevel >>
buttonVars == << currentButtonState, lastButtonState, debounceElapsed >>
envVars == << pins, rawStable, bounced, press >>
clockVars == << millis, inputStartTime, lastDebounceTime >>

\* ------------------------------------------------------------- environment
\* What the player may do in a specification: the channels that are ever pressed,
\* how many may be down at once, the instants of a step (ms since its start) and
\* the gaps in Idle at which a raw level may change, whether levels may also
\* have changed just before a delay() ends, and the values random(4) returns.
Player == [channels |-> {0, 3}, maxHeld |-> 1,
           actTimes |-> {0, InputTimeout - Cap - 1, InputTimeout - Cap},
           idleDts |-> {0}, noisy |-> FALSE, draws |-> 0 .. 3]
Bouncer == [channels |-> {0, 1}, maxHeld |-> 2,
            actTimes |-> {0, DtBounce, 2 * DtBounce, 3 * DtBounce},
            idleDts |-> {0, DtBounce}, noisy |-> TRUE, draws |-> {0, 1}]

Dawdler == [channels |-> {0}, maxHeld |-> 1,
            actTimes |-> {0, DtBounce, 3 * DtBounce, InputTimeout - Cap},
            idleDts |-> {0}, noisy |-> TRUE, draws |-> {0, 1}]

Held(p) == Cardinality({b \in Buttons : p[b] = LOW})
PinConfigs(e) ==
    {p \in [Buttons -> Levels] :
        /\ \A b \in Buttons \ e.channels : p[b] = HIGH
        /\ Held(p) <= e.maxHeld}
StableConfigs(e) ==
    {r \in [Buttons -> {0, Cap}] :
        \A b \in Buttons : (~e.noisy \/ b \notin e.channels) => r[b] = Cap}

\* delay(d): d ms go by with no button polled; the raw levels end anywhere, each
\* either stable or still bouncing.  A level that is LOW and stable before and
\* after was held throughout.
Block(e, d) ==
    /\ pins' \in PinConfigs(e)
    /\ rawStable' \in StableConfigs(e)
    /\ bounced' = [b \in Buttons |-> rawStable'[b] = 0]
    /\ press' = [b \in Buttons |->
                    IF pins[b] = LOW /\ pins'[b] = LOW /\ rawStable'[b] = Cap
                    THEN press[b] ELSE -1]
    /\ debounceElapsed' = [b \in Buttons |-> Sat(debounceElapsed[b] + d)]
    /\ UNCHANGED << currentButtonState, lastButtonState >>

\* ------------------------------------------------------------------ buttons
\* (variant: no edge detection, true whenever a stable LOW is read)
ReadButtonLevel(reading, cur, last, el) ==
    LET el1 == IF reading # last THEN 0 ELSE el
        accept == el1 > debounceDelay
        cur1 == IF accept THEN reading ELSE cur
    IN  [ret |-> accept /\ cur1 = LOW, cur |-> cur1, last |-> reading, el |-> el1]
\* (variant: the accepted level is not kept in currentButtonState)
ReadButtonNoStore(reading, cur, last, el) ==
    LET el1 == IF reading # last THEN 0 ELSE el
        accept == el1 > debounceDelay /\ reading # cur
    IN  [ret |-> accept /\ reading = LOW, cur |-> cur, last |-> reading, el |-> el1]
\* readButton(button) at one clock reading: the value returned and the new entries
ReadButton(reading, cur, last, el) ==
    LET el1 == IF reading # last THEN 0 ELSE el
        accept == el1 > debounceDelay /\ reading # cur
        cur1 == IF accept THEN reading ELSE cur
    IN  [ret |-> accept /\ cur1 = LOW, cur |-> cur1, last |-> reading, el |-> el1]

\* (variant: no break, all four buttons are polled and the last that returned true
\* is the one reported)
RECURSIVE ScanNoBreak(_, _)
ScanNoBreak(b, st) ==
    IF b >= NumButtons THEN st
    ELSE LET r == ReadButton(pins[b], currentButtonState[b], lastButtonState[b],
                                debounceElapsed[b])
             st1 == [hit |-> IF r.ret THEN b ELSE st.hit,
                     cur |-> [st.cur EXCEPT ![b] = r.cur],
                     last |-> [st.last EXCEPT ![b] = r.last],
                     el |-> [st.el EXCEPT ![b] = r.el]]
         IN  ScanNoBreak(b + 1, st1)
\* for(button = b; button < 4; button++) if(readButton(button)) { ...; break; }
\* st = [hit, cur, last, el]: the arrays so far; hit = the button that returned true.
\* readButton(b) finds the entries of b as they were before the pass: the calls
\* for the lower buttons changed only their own entries.
RECURSIVE Scan(_, _)
Scan(b, st) ==
    IF b >= NumButtons THEN st
    ELSE LET r == ReadButton(pins[b], currentButtonState[b], lastButtonState[b],
                                debounceElapsed[b])
             st1 == [hit |-> IF r.ret THEN b ELSE NoButton,
                     cur |-> [st.cur EXCEPT ![b] = r.cur],
                     last |-> [st.last EXCEPT ![b] = r.last],
                     el |-> [st.el EXCEPT ![b] = r.el]]
         IN  IF r.ret THEN st1 ELSE Scan(b + 1, st1)

PollAll ==
    Scan(0, [hit |-> NoButton, cur |-> currentButtonState,
             last |-> lastButtonState, el |-> debounceElapsed])

\* The time and raw levels between a pass that reported nothing and the next pass.
\* st: the arrays after the pass.  limit: ms until the deadline of the step (-1: none).
\* dts: the gaps after which the player may change a level.
Pending(st) == {b \in Buttons : pins[b] # st.cur[b] /\ st.el[b] <= debounceDelay}
Horizon(st, limit) ==
    LET acc == {Cap - st.el[b] : b \in Pending(st)}
        all == acc \cup (IF limit >= 0 THEN {limit} ELSE {})
    IN  IF all = {} THEN -1 ELSE SetMin(all)
Elapse(st, dt, flip) ==
    /\ pins' = [b \in Buttons |-> IF b = flip THEN 1 - pins[b] ELSE pins[b]]
    /\ rawStable' = [b \in Buttons |-> IF b = flip THEN 0 ELSE Sat(rawStable[b] + dt)]
    /\ bounced' = [b \in Buttons |->
                      IF b = flip THEN rawStable[b] + dt < debounceDelay
                      ELSE bounced[b] /\ rawStable[b] + dt < debounceDelay]
    /\ press' = [b \in Buttons |->
                    IF b # flip THEN press[b]
                    ELSE IF pins[b] = HIGH /\ st.cur[b] = HIGH THEN 0 ELSE -1]
    /\ currentButtonState' = st.cur
    /\ lastButtonState' = st.last
    /\ debounceElapsed' = [b \in Buttons |-> Sat(st.el[b] + dt)]
Between(e, st, limit, dts) ==
    \E h \in {Horizon(st, limit)} :
        \/ \E c \in e.channels, dt \in dts :
              /\ dt >= 0
              /\ h >= 0 => dt <= h
              /\ pins[c] = HIGH => Held(pins) < e.maxHeld
              /\ Elapse(st, dt, c)
              /\ sinceInputStart' = IF limit >= 0 THEN sinceInputStart + dt ELSE sinceInputStart
        \/ /\ h > 0
           /\ Elapse(st, h, NoButton)
           /\ sinceInputStart' = IF limit >= 0 THEN sinceInputStart + h ELSE sinceInputStart

\* readButton(b) returned true: nothing of the environment changes
Reported(b) ==
    /\ press' = [press EXCEPT ![b] = IF @ < 0 THEN @ ELSE Min(@ + 1, 2)]
    /\ UNCHANGED << pins, rawStable, bounced >>

\* --------------------------------------------------------------- arithmetic
\* int is 16 bits wide on the AVR boards the sketch targets
Int16(x) == ((x + 32768) % 65536) - 32768
\* (variant: no floor)
SpeedNoFloor(level) == Int16(INITIAL_SPEED - Int16(level * SPEED_DECREASE))
\* (variant: one decrease whatever the level)
SpeedOneDecrease(level) == Max(MIN_SPEED, Int16(INITIAL_SPEED - SPEED_DECREASE))
\* max(MIN_SPEED, INITIAL_SPEED - (level * SPEED_DECREASE)) in int arithmetic
SpeedFor(level) ==
    Max(MIN_SPEED, Int16(INITIAL_SPEED - Int16(level * SPEED_DECREASE)))
\* currentLevel++ on a byte
NextLevel(level) == (level + 1) % ByteMod
\* (variant: the bound is checked with <=)
CanStorePastEnd(level) == level <= MAX_LEVEL
\* (variant: the last cell is never written)
CanStoreButLast(level) == level + 1 < MAX_LEVEL
\* addNewStep: if(currentLevel < MAX_LEVEL)
CanStore(level) == level < MAX_LEVEL
\* (variant: the loop stops one step early)
StepContinuesStrict(step, level) == step < level
\* readPlayerSequence: the for condition currentStep <= currentLevel
StepContinues(step, level) == step <= level
\* (variant: no deadline)
TimedOutNever(elapsed) == FALSE
\* (variant: the deadline itself still counts as in time)
TimedOutLate(elapsed) == ~(elapsed <= InputTimeout)
\* readPlayerSequence: the while condition's millis() - inputStartTime < 3000, negated
TimedOut(elapsed) == ~(elapsed < InputTimeout)
\* readPlayerSequence: playerInput != gameSequence[currentStep], negated
Matches(input, expected) == input = expected
\* (variants: any different level is stored; a record by one is not stored)
NewRecordAny(level, score) == level # score
NewRecordOffByOne(level, score) == level > score + 1
\* (variant: every game that won a round is stored)
NewRecordNonZero(level, score) == level > 0
\* handleGameOver: if(currentLevel > highScore)
NewRecord(level, score) == level > score
\* (variant: the level is not reset)
FreshGameKeepsLevel == [level |-> currentLevel, speed |-> INITIAL_SPEED, over |-> FALSE]
\* resetGame: the three assignments
FreshGame == [level |-> 0, speed |-> INITIAL_SPEED, over |-> FALSE]
\* gameSequence[i]: past the end of the array the read returns whatever byte is there
SequenceRead(i) == IF i < MAX_LEVEL THEN {gameSequence[i]} ELSE Bytes
\* (variant: loop() does not look at gameOver)
LoopEntryNoIdle(over) == "add"
\* loop() at its top: the branch the next iteration takes
LoopEntry(over) == IF over THEN "idle" ELSE "add"

StartupDelay == 4 * (300 + 100) + 2 * (200 + 200)
GameOverDelay(level) == 4 * (200 + 200) + 1000 + level * (200 + 200)
DisplayDelay(level, speed) == (level + 1) * (speed + speed \div 2)

\* ------------------------------------------------------- unsigned long words
\* A 32-bit word is << high half, low half >>
Zero32 == << 0, 0 >>
Less32(a, b) == a[1] < b[1] \/ (a[1] = b[1] /\ a[2] < b[2])
\* millis() n ms later (n < 2^16): the clock wraps modulo 2^32
Add32(a, n) ==
    LET lo == a[2] + n
    IN  << (a[1] + lo \div Half) % Half, lo % Half >>
\* (variant: the difference is taken in a wider type, so that a clock that has
\* wrapped gives a huge value)
SubWide(a, b) ==
    LET lo == a[2] - b[2]
        borrow == IF lo < 0 THEN 1 ELSE 0
    IN  IF Less32(a, b) THEN << Half - 1, Half - 1 >>
        ELSE << a[1] - b[1] - borrow, (lo + Half) % Half >>
\* a - b on unsigned long: the difference modulo 2^32
Sub32(a, b) ==
    LET lo == a[2] - b[2]
        borrow == IF lo < 0 THEN 1 ELSE 0
    IN  << (a[1] - b[1] - borrow + Half) % Half, (lo + Half) % Half >>
\* a difference as a number, for the comparisons with 3000 and debounceDelay: every
\* word of 2^16 or more counts as 2^16
Clamp(d) == IF d[1] = 0 THEN d[2] ELSE Half

\* ------------------------------------------------------------------ actions
\* The globals as their initializers leave them, before setup() runs
Init ==
    /\ pc = "setup"
    /\ eeprom \in {0, 1, ByteMod - 1}
    /\ eepromAtBoot = eeprom
    /\ highScore = 0
    /\ currentLevel = 0
    /\ currentSpeed = INITIAL_SPEED
    /\ gameOver = FALSE
    /\ gameSequence = [i \in 0 .. (MAX_LEVEL - 1) |-> 0]
    /\ currentStep = 0
    /\ sinceInputStart = 0
    /\ pressed = NoButton
    /\ verdict = "none"
    /\ currentButtonState = [b \in Buttons |-> HIGH]
    /\ lastButtonState = [b \in Buttons |-> HIGH]
    /\ debounceElapsed = [b \in Buttons |-> 0]
    /\ pins = [b \in Buttons |-> HIGH]
    /\ rawStable = [b \in Buttons |-> Cap]
    /\ bounced = [b \in Buttons |-> FALSE]
    /\ press = [b \in Buttons |-> -1]
    /\ stored = 0
    /\ lastIndexShown = -1
    /\ roundsWon = 0
    /\ maxLevel = 0
    /\ millis = Zero32
    /\ inputStartTime = Zero32
    /\ lastDebounceTime = [b \in Buttons |-> Zero32]

\* setup(): the high score is read from EEPROM, then startupSequence()
Setup(e) ==
    /\ pc = "setup"
    /\ highScore' = eeprom
    /\ Block(e, StartupDelay)
    /\ pc' = LoopEntry(gameOver)
    /\ UNCHANGED << eeprom, eepromAtBoot, currentLevel, currentSpeed, gameOver,
                    gameSequence, currentStep, sinceInputStart, pressed, verdict,
                    stored, lastIndexShown, roundsWon, maxLevel >>
    /\ UNCHANGED clockVars

\* addNewStep()
AddNewStep(e) ==
    /\ pc = "add"
    /\ IF CanStore(currentLevel)
       THEN /\ \E symbol \in e.draws :
                 gameSequence' = [gameSequence EXCEPT ![currentLevel] = symbol]
            /\ stored' = stored + 1
       ELSE UNCHANGED << gameSequence, stored >>
    /\ pc' = "display"
    /\ lastIndexShown' = -1
    /\ UNCHANGED << eeprom, eepromAtBoot, highScore, currentLevel, currentSpeed, gameOver,
                    currentStep, sinceInputStart, pressed, verdict, roundsWon, maxLevel >>
    /\ UNCHANGED buttonVars
    /\ UNCHANGED envVars
    /\ UNCHANGED clockVars

\* displaySequence(): gameSequence[0 .. currentLevel] is played back; the byte
\* counter i never exceeds a currentLevel of 255, and the loop then never ends.
\* readPlayerSequence() starts: currentStep = 0, inputStartTime = millis()
DisplaySequence(e) ==
    /\ pc = "display"
    /\ currentLevel < ByteMod - 1
    /\ lastIndexShown' = currentLevel
    /\ Block(e, DisplayDelay(currentLevel, currentSpeed))
    /\ pc' = "read"
    /\ currentStep' = 0
    /\ sinceInputStart' = 0
    /\ pressed' = NoButton
    /\ verdict' = "none"
    /\ UNCHANGED gameVars
    /\ UNCHANGED clockVars

\* readPlayerSequence(): one evaluation of the while condition and, if it holds,
\* one pass of the for loop over the buttons
ReadPass(e) ==
    /\ pc = "read"
    /\ IF TimedOut(sinceInputStart)
       THEN \* if(!inputReceived) return false
            /\ verdict' = "timeout"
            /\ pc' = "gameOver"
            /\ UNCHANGED << sinceInputStart, pressed >>
            /\ UNCHANGED buttonVars
            /\ UNCHANGED envVars
       ELSE \E st \in {PollAll} :
                IF st.hit # NoButton
                THEN /\ pressed' = st.hit
                     /\ pc' = "feedback"
                     /\ currentButtonState' = st.cur
                     /\ lastButtonState' = st.last
                     /\ debounceElapsed' = st.el
                     /\ UNCHANGED << sinceInputStart, verdict >>
                     /\ Reported(st.hit)
                ELSE /\ Between(e, st, InputTimeout - sinceInputStart,
                                {t - sinceInputStart : t \in e.actTimes})
                     /\ UNCHANGED << pc, pressed, verdict >>
    /\ UNCHANGED << currentStep, lastIndexShown >>
    /\ UNCHANGED gameVars
    /\ UNCHANGED clockVars

\* readPlayerSequence(): the feedback of an accepted press (delay(200)), the
\* comparison with gameSequence[currentStep], and the step to the next iteration
Feedback(e) ==
    /\ pc = "feedback"
    /\ Block(e, FeedbackDelay)
    /\ \E expected \in SequenceRead(currentStep) :
          IF ~Matches(pressed, expected)
          THEN /\ verdict' = "wrong"
               /\ pc' = "gameOver"
               /\ UNCHANGED << currentStep, sinceInputStart >>
          ELSE /\ verdict' = "match"
               /\ currentStep' = (currentStep + 1) % ByteMod
               /\ sinceInputStart' = 0
               /\ pc' = IF StepContinues(currentStep', currentLevel)
                        THEN "read" ELSE "levelUp"
    /\ UNCHANGED << pressed, lastIndexShown >>
    /\ UNCHANGED gameVars
    /\ UNCHANGED clockVars

\* levelUp(), taken while fewer than `rounds` rounds are won
LevelUp(e, rounds) ==
    /\ pc = "levelUp"
    /\ currentLevel < rounds
    /\ currentLevel' = NextLevel(currentLevel)
    /\ currentSpeed' = SpeedFor(currentLevel')
    /\ Block(e, 1000)
    /\ pc' = LoopEntry(gameOver)
    /\ roundsWon' = roundsWon + 1
    /\ maxLevel' = Max(maxLevel, currentLevel')
    /\ pressed' = NoButton
    /\ verdict' = "none"
    /\ UNCHANGED << eeprom, eepromAtBoot, highScore, gameOver, gameSequence, stored,
                    currentStep, sinceInputStart, lastIndexShown >>
    /\ UNCHANGED clockVars

\* handleGameOver()
HandleGameOver(e) ==
    /\ pc = "gameOver"
    /\ gameOver' = TRUE
    /\ IF NewRecord(currentLevel, highScore)
       THEN /\ highScore' = currentLevel
            /\ eeprom' = currentLevel
       ELSE UNCHANGED << highScore, eeprom >>
    /\ Block(e, GameOverDelay(currentLevel))
    /\ pc' = LoopEntry(gameOver')
    /\ pressed' = NoButton
    /\ verdict' = "none"
    /\ UNCHANGED << eepromAtBoot, currentLevel, currentSpeed, gameSequence, stored,
                    roundsWon, maxLevel, currentStep, sinceInputStart, lastIndexShown >>
    /\ UNCHANGED clockVars

\* loop() while gameOver: one call of checkAnyButton()
IdlePoll(e) ==
    /\ pc = "idle"
    /\ \E st \in {PollAll} :
           IF st.hit # NoButton
           THEN /\ pressed' = st.hit
                /\ pc' = "reset"
                /\ currentButtonState' = st.cur
                /\ lastButtonState' = st.last
                /\ debounceElapsed' = st.el
                /\ UNCHANGED sinceInputStart
                /\ Reported(st.hit)
           ELSE /\ Between(e, st, -1, e.idleDts)
                /\ UNCHANGED << pc, pressed >>
    /\ UNCHANGED << currentStep, verdict, lastIndexShown >>
    /\ UNCHANGED gameVars
    /\ UNCHANGED clockVars

\* resetGame()
ResetGame(e) ==
    /\ pc = "reset"
    /\ currentLevel' = FreshGame.level
    /\ currentSpeed' = FreshGame.speed
    /\ gameOver' = FreshGame.over
    /\ Block(e, 500 + StartupDelay)
    /\ pc' = LoopEntry(gameOver')
    /\ stored' = 0
    /\ roundsWon' = 0
    /\ pressed' = NoButton
    /\ lastIndexShown' = -1
    /\ UNCHANGED << eeprom, eepromAtBoot, highScore, gameSequence, maxLevel,
                    currentStep, sinceInputStart, verdict >>
    /\ UNCHANGED clockVars

\* ----------------------------------------------------------- specifications
\* Any number of games, a player who presses one button at a time
Next ==
    \/ Setup(Player)
    \/ AddNewStep(Player)
    \/ DisplaySequence(Player)
    \/ ReadPass(Player)
    \/ Feedback(Player)
    \/ LevelUp(Player, MaxRounds)
    \/ HandleGameOver(Player)
    \/ IdlePoll(Player)
    \/ ResetGame(Player)
Spec == Init /\ [][Next]_vars

\* One game played past the speed floor
NextLong ==
    \/ Setup(Player)
    \/ AddNewStep(Player)
    \/ DisplaySequence(Player)
    \/ ReadPass(Player)
    \/ Feedback(Player)
    \/ LevelUp(Player, LongRounds)
    \/ HandleGameOver(Player)
SpecLong == Init /\ [][NextLong]_vars

\* Short games, two channels whose raw levels bounce
InitFine == Init /\ eeprom = 0
NextFine ==
    \/ Setup(Bouncer)
    \/ AddNewStep(Bouncer)
    \/ DisplaySequence(Bouncer)
    \/ ReadPass(Bouncer)
    \/ Feedback(Bouncer)
    \/ LevelUp(Bouncer, FineRounds)
    \/ HandleGameOver(Bouncer)
    \/ IdlePoll(Bouncer)
    \/ ResetGame(Bouncer)
SpecFine == InitFine /\ [][NextFine]_vars

\* One short game with the clock advancing: a polling pass of readPlayerSequence
\* that neither reports a press nor times out is followed, sooner or later, by a
\* pass at a later clock reading, and delay(200) returns.
TimePasses(e) ==
    ReadPass(e) /\ (pc' # "read" \/ sinceInputStart' > sinceInputStart)
NextLive ==
    \/ Setup(Dawdler)
    \/ AddNewStep(Dawdler)
    \/ DisplaySequence(Dawdler)
    \/ ReadPass(Dawdler)
    \/ Feedback(Dawdler)
    \/ LevelUp(Dawdler, FineRounds)
    \/ HandleGameOver(Dawdler)
SpecLive ==
    InitFine /\ [][NextLive]_vars
             /\ WF_vars(TimePasses(Dawdler)) /\ WF_vars(Feedback(Dawdler))

\* The clock readings around the wrap of millis().  One step of readPlayerSequence
\* and the calls of readButton(0) in it, on the 32-bit words; sinceInputStart and
\* debounceElapsed are here the ms that have really gone by since inputStartTime
\* and lastDebounceTime[b] were assigned.
\* millis() when the step starts: just after power-up, and shortly before the wrap
StartInstants ==
    {Zero32, << 0, InputTimeout >>}
    \cup {<< Half - 1, Half - k >> : k \in {1, DtBounce, debounceDelay, Cap,
                                            InputTimeout, InputTimeout + 1}}
\* the ms since the start of the step at which something is done
Instants ==
    {0, 1, DtBounce, debounceDelay, Cap, Cap + DtBounce, 2 * Cap,
     InputTimeout - Cap, InputTimeout - 1, InputTimeout, InputTimeout + 1}

\* the sketch has run for t ms, no button was touched, and a step starts
ClockStart ==
    /\ pc = "setup"
    /\ \E t \in StartInstants :
          /\ millis' = t
          /\ inputStartTime' = t
          /\ debounceElapsed' = [b \in Buttons |-> Sat(Clamp(t))]
    /\ sinceInputStart' = 0
    /\ pc' = "read"
    /\ UNCHANGED << lastDebounceTime, currentButtonState, lastButtonState, currentStep,
                    pressed, verdict, lastIndexShown >>
    /\ UNCHANGED gameVars
    /\ UNCHANGED envVars

\* time goes by until the next instant
ClockTick ==
    /\ pc = "read"
    /\ \E s \in Instants :
          /\ s > sinceInputStart
          /\ millis' = Add32(millis, s - sinceInputStart)
          /\ debounceElapsed' =
                 [b \in Buttons |-> Sat(debounceElapsed[b] + (s - sinceInputStart))]
          /\ rawStable' = [b \in Buttons |-> Sat(rawStable[b] + (s - sinceInputStart))]
          /\ sinceInputStart' = s
    /\ UNCHANGED << pc, inputStartTime, lastDebounceTime, currentButtonState,
                    lastButtonState, currentStep, pressed, verdict, lastIndexShown,
                    pins, bounced, press >>
    /\ UNCHANGED gameVars

\* the raw level of b changes
ClockFlip(b) ==
    /\ pc = "read"
    /\ pins' = [pins EXCEPT ![b] = 1 - @]
    /\ rawStable' = [rawStable EXCEPT ![b] = 0]
    /\ UNCHANGED << pc, currentStep, sinceInputStart, pressed, verdict, lastIndexShown,
                    bounced, press >>
    /\ UNCHANGED gameVars
    /\ UNCHANGED buttonVars
    /\ UNCHANGED clockVars

\* the while condition millis() - inputStartTime < 3000 and, if it holds,
\* readButton(b), both on the 32-bit words
ClockPoll(b) ==
    /\ pc = "read"
    /\ IF TimedOut(Clamp(Sub32(millis, inputStartTime)))
       THEN /\ verdict' = "timeout"
            /\ pc' = "gameOver"
            /\ UNCHANGED << pressed, lastDebounceTime >>
            /\ UNCHANGED buttonVars
       ELSE \E t \in {IF pins[b] # lastButtonState[b]
                       THEN millis ELSE lastDebounceTime[b]} :
              \E r \in {ReadButton(pins[b], currentButtonState[b], lastButtonState[b],
                                   Clamp(Sub32(millis, t)))} :
                 /\ lastDebounceTime' = [lastDebounceTime EXCEPT ![b] = t]
                 /\ debounceElapsed' =
                        [debounceElapsed EXCEPT
                            ![b] = IF pins[b] # lastButtonState[b] THEN 0 ELSE @]
                 /\ currentButtonState' = [currentButtonState EXCEPT ![b] = r.cur]
                 /\ lastButtonState' = [lastButtonState EXCEPT ![b] = r.last]
                 /\ pressed' = IF r.ret THEN b ELSE pressed
                 /\ pc' = IF r.ret THEN "feedback" ELSE pc
                 /\ UNCHANGED verdict
    /\ UNCHANGED << millis, inputStartTime, currentStep, sinceInputStart, lastIndexShown >>
    /\ UNCHANGED gameVars
    /\ UNCHANGED envVars

NextClock ==
    \/ ClockStart
    \/ ClockTick
    \/ ClockFlip(0)
    \/ ClockPoll(0)
SpecClock == Init /\ [][NextClock]_vars

\* ------------------------------------------------------------------- claims
\* C1: a press that equals gameSequence[currentStep] is a match; a match at a step
\* before the last moves on to the next step with a fresh deadline, a match at the
\* last step (index currentLevel) makes readPlayerSequence return true, and loop()
\* then runs levelUp: the level becomes L + 1 and the game is not over.
C1_ExactReplayWinsRound ==
    [][ /\ (pc = "feedback" /\ currentStep < MAX_LEVEL
               /\ pressed = gameSequence[currentStep]) => verdict' = "match"
        /\ pc = "feedback" => sinceInputStart < InputTimeout
        /\ (pc = "feedback" /\ verdict' = "match") =>
               IF currentStep = currentLevel
               THEN pc' = "levelUp"
               ELSE pc' = "read" /\ currentStep' = currentStep + 1
                                 /\ sinceInputStart' = 0
        /\ pc = "levelUp" =>
               /\ verdict = "match"
               /\ currentStep = currentLevel + 1
               /\ pc' = "add"
               /\ currentLevel' = currentLevel + 1
               /\ ~gameOver'
      ]_vars
C1_Witness == pc = "levelUp" /\ currentLevel = 1 /\ verdict = "match"

\* C2: the first step with a wrong press, or with no press when 3000 ms are over,
\* ends the round at once: handleGameOver runs next, no further step is read,
\* gameOver becomes true and currentLevel stays the number of rounds won.
C2_FirstFailureEndsGame ==
    [][ /\ (pc = "feedback" /\ currentStep < MAX_LEVEL
               /\ pressed # gameSequence[currentStep]) => verdict' = "wrong"
        /\ (pc = "read" /\ sinceInputStart >= InputTimeout) => verdict' = "timeout"
        /\ (pc \in {"read", "feedback"} /\ verdict' \in {"wrong", "timeout"}) =>
               /\ pc' = "gameOver"
               /\ currentStep' = currentStep
               /\ currentLevel' = currentLevel
        /\ pc = "gameOver" =>
               /\ verdict \in {"wrong", "timeout"}
               /\ currentLevel = roundsWon
               /\ pc' = "idle"
               /\ gameOver'
               /\ currentLevel' = currentLevel
        /\ pc = "idle" => (gameOver /\ pc' \in {"idle", "reset"}
                             /\ currentLevel' = currentLevel)
      ]_vars
C2_Witness ==
    pc = "gameOver" /\ verdict = "timeout" /\ currentLevel = 1 /\ currentStep = 1

\* C3: after N calls of levelUp in a game, currentLevel = N (a byte) and
\* currentSpeed = max(MIN_SPEED, INITIAL_SPEED - N * SPEED_DECREASE).
C3_LevelAndSpeedAfterRounds ==
    /\ currentLevel = roundsWon
    /\ currentLevel \in Bytes
    /\ currentSpeed = Max(MIN_SPEED, INITIAL_SPEED - roundsWon * SPEED_DECREASE)
C3_Witness == roundsWon = LongRounds /\ currentSpeed = MIN_SPEED

\* C4: no step lowers highScore (nor the stored byte); after startup it changes only
\* in handleGameOver, to a currentLevel strictly greater than it; a game that ends
\* at level 0 changes neither highScore nor the stored byte.
C4_HighScoreNeverDecreases ==
    [][ /\ highScore' >= highScore
        /\ eeprom' >= eeprom
        /\ (pc # "setup" /\ highScore' # highScore) =>
               (pc = "gameOver" /\ currentLevel > highScore /\ highScore' = currentLevel)
        /\ (pc = "gameOver" /\ currentLevel = 0) =>
               (highScore' = highScore /\ eeprom' = eeprom)
      ]_vars
C4_Witness ==
    pc = "idle" /\ currentLevel = 0 /\ highScore = 2 /\ eepromAtBoot = 0

\* C5: once a game is over, highScore is the maximum of the byte read at startup
\* and the highest level reached in any game since.
C5_HighScoreIsMaximum ==
    gameOver => highScore = Max(eepromAtBoot, maxLevel)
C5_Witness ==
    gameOver /\ highScore = 2 /\ currentLevel = 1 /\ eepromAtBoot = 1

\* the raw level of b has changed twice within debounceDelay and is not yet stable
Bouncing(b) == bounced[b] /\ rawStable[b] < debounceDelay

\* C6: readButton never returns true for a channel whose raw level keeps changing
\* at intervals shorter than debounceDelay, in whatever phase the poll is made.
C6_NoPressWhileBouncing ==
    (pc \in {"feedback", "reset"}) => ~Bouncing(pressed)

C8_ResetStartsFreshGame ==
    [][ /\ pc = "reset" =>
               /\ currentLevel' = 0
               /\ currentSpeed' = INITIAL_SPEED
               /\ ~gameOver'
               /\ pc' = "add"
        /\ (pc = "add" /\ roundsWon = 0) =>
               /\ stored' = 1
               /\ \A i \in 1 .. (MAX_LEVEL - 1) : gameSequence'[i] = gameSequence[i]
        /\ (roundsWon' = 0 /\ pc' \in {"read", "feedback"}) =>
               /\ currentLevel' = 0
               /\ lastIndexShown' = 0
               /\ currentStep' = 0
               /\ stored' = 1
        /\ (roundsWon = 0 /\ pc = "feedback") => pc' \in {"levelUp", "gameOver"}
      ]_vars
C8_Witness ==
    pc = "read" /\ roundsWon = 0 /\ maxLevel >= MAX_LEVEL /\ lastIndexShown = 0

\* C9: currentLevel never exceeds MAX_LEVEL.
C9_LevelAtMostMax == currentLevel <= MAX_LEVEL

\* C10: every index that displaySequence plays back and that readPlayerSequence
\* compares is below the number of symbols stored in this game and below MAX_LEVEL.
C10_ReadsBelowStored ==
    /\ stored <= MAX_LEVEL
    /\ lastIndexShown < stored
    /\ lastIndexShown < MAX_LEVEL
    /\ pc \in {"read", "feedback"} => (currentStep < stored /\ currentStep < MAX_LEVEL)

\* C11: within a game currentSpeed never increases; every levelUp lowers it while
\* it is above MIN_SPEED and leaves it at MIN_SPEED afterwards; it is never below
\* MIN_SPEED nor above INITIAL_SPEED.
C11_SpeedNeverIncreases ==
    [][ /\ pc # "reset" => currentSpeed' <= currentSpeed
        /\ pc = "levelUp" =>
               IF currentSpeed > MIN_SPEED
               THEN currentSpeed' < currentSpeed
               ELSE currentSpeed' = MIN_SPEED
        /\ pc # "levelUp" => (pc = "reset" \/ currentSpeed' = currentSpeed)
        /\ MIN_SPEED <= currentSpeed' /\ currentSpeed' <= INITIAL_SPEED
      ]_vars
C11_Witness ==
    /\ pc = "display"
    /\ currentSpeed = MIN_SPEED
    /\ roundsWon * SPEED_DECREASE > INITIAL_SPEED - MIN_SPEED

\* C12: after setup() the byte in EEPROM and highScore lie in 0 .. MAX_LEVEL,
\* whatever the byte was at power-up and whatever games are played.
C12_HighScoreInRange ==
    pc # "setup" =>
        /\ highScore \in 0 .. MAX_LEVEL
        /\ eeprom \in 0 .. MAX_LEVEL

\* C13: with the clock advancing, every step of readPlayerSequence ends, with an
\* accepted press or with the timeout, and every round that has reached
\* readPlayerSequence ends in levelUp or in handleGameOver.
C13_RoundResolves ==
    /\ (pc = "read") ~> (pc \in {"feedback", "gameOver"})
    /\ (pc = "read") ~> (pc \in {"levelUp", "gameOver"})
C13_Witness ==
    /\ pc = "gameOver" /\ verdict = "timeout"
    /\ sinceInputStart = InputTimeout /\ currentStep = 0 /\ roundsWon = 1

\* C14 (as stated): the number of symbols stored since the game started equals
\* currentLevel in every state.
C14_LengthEqualsLevel ==
    stored = currentLevel

\* C14 (amended): the number of symbols stored in the game equals currentLevel
\* between levelUp (or resetGame, or setup) and addNewStep only; from addNewStep on
\* it is currentLevel + 1, both capped at MAX_LEVEL; a round plays back the indices
\* 0 .. currentLevel and is won after currentLevel + 1 matching presses.
C14_LengthIsLevelPlusOne ==
    /\ pc \in {"setup", "add"} => stored = Min(currentLevel, MAX_LEVEL)
    /\ pc \notin {"setup", "add"} => stored = Min(currentLevel + 1, MAX_LEVEL)
    /\ pc \in {"read", "feedback", "levelUp"} => lastIndexShown = currentLevel
    /\ pc \in {"read", "feedback"} => currentStep <= currentLevel
    /\ pc = "levelUp" => currentStep = currentLevel + 1
C14_Witness ==
    pc = "levelUp" /\ currentLevel = MAX_LEVEL - 1 /\ stored = MAX_LEVEL

\* C15: addNewStep changes at most gameSequence[currentLevel], leaving the lower
\* (and all other) positions as they were; below the cap it stores there one
\* symbol of 0 .. 3, so that the next round's sequence is this round's followed by
\* one new symbol, and at the cap it stores nothing; no other step of setup() or
\* loop() changes gameSequence.
C15_AppendOnly ==
    [][ /\ pc = "add" =>
               /\ \A i \in 0 .. (MAX_LEVEL - 1) :
                      i # currentLevel => gameSequence'[i] = gameSequence[i]
               /\ IF currentLevel < MAX_LEVEL
                  THEN /\ gameSequence'[currentLevel] \in 0 .. (NumButtons - 1)
                       /\ stored' = stored + 1
                       /\ stored = currentLevel
                  ELSE gameSequence' = gameSequence /\ stored' = stored
        /\ pc # "add" => gameSequence' = gameSequence
        /\ pc \notin {"add", "reset"} => stored' = stored
      ]_vars
C15_Witness ==
    /\ pc = "display" /\ currentLevel = 1 /\ stored = 2
    /\ gameSequence[0] = 3 /\ gameSequence[1] = 1

\* C16: the EEPROM cell is read in setup() only, which runs once; it is written in
\* handleGameOver only, and only when currentLevel > highScore; every other step
\* leaves the cell and highScore as they are; once setup() has run, highScore
\* equals the content of the cell.
C16_StoreReadOnceWrittenOnRecord ==
    [][ /\ pc' # "setup"
        /\ pc = "setup" => (highScore' = eeprom /\ eeprom' = eeprom)
        /\ pc = "gameOver" =>
               IF currentLevel > highScore
               THEN eeprom' = currentLevel /\ highScore' = currentLevel
               ELSE eeprom' = eeprom /\ highScore' = highScore
        /\ pc \notin {"setup", "gameOver"} =>
               (eeprom' = eeprom /\ highScore' = highScore)
        /\ highScore' = eeprom'
      ]_vars
C16_Witness ==
    pc = "read" /\ roundsWon = 0 /\ eepromAtBoot = 0 /\ eeprom = 1 /\ highScore = 1

\* C17: while gameOver is true loop() only polls the buttons: no symbol is stored,
\* played back or compared and currentLevel, currentSpeed, highScore and the
\* EEPROM cell keep their values; a pass of checkAnyButton that reports no press
\* stays in Idle, the first pass that reports one runs resetGame, and the next
\* iteration of loop() starts the first round of a new game with addNewStep.
C17_IdleUntilPress ==
    [][ /\ gameOver' <=> pc' \in {"idle", "reset"}
        /\ pc = "idle" =>
               /\ pc' = IF PollAll.hit = NoButton THEN "idle" ELSE "reset"
               /\ pc' = "reset" => pressed' = PollAll.hit
               /\ UNCHANGED << currentLevel, currentSpeed, highScore, eeprom,
                               gameSequence, stored, lastIndexShown, currentStep,
                               sinceInputStart, verdict, roundsWon >>
        /\ pc = "reset" =>
               /\ pc' = "add"
               /\ currentLevel' = 0
               /\ UNCHANGED << highScore, eeprom, gameSequence >>
        /\ pc' = "reset" => pc = "idle"
      ]_vars
C17_Witness ==
    pc = "add" /\ currentLevel = 0 /\ maxLevel >= 1 /\ ~gameOver /\ highScore = maxLevel

\* the state is one in which loop() makes a polling pass
Polling == pc = "idle" \/ (pc = "read" /\ sinceInputStart < InputTimeout)
\* readButton(b), called now, would return true
WouldReport(b) ==
    ReadButton(pins[b], currentButtonState[b], lastButtonState[b],
               debounceElapsed[b]).ret
\* a pass has read b LOW for more than debounceDelay and has not accepted it
Waiting(b) ==
    /\ currentButtonState[b] = HIGH /\ lastButtonState[b] = LOW
    /\ debounceElapsed[b] > debounceDelay

\* C18: on a polling pass on which readButton would return true for several
\* buttons, the lowest of them is reported (to readPlayerSequence as the press, to
\* loop() as the restart); the entries of the higher ones are not touched, their
\* press stays unreported through the delays that follow, and the next pass that
\* finds such a button still LOW reports it (or a lower one): in
\* readPlayerSequence, the first pass of the next step.
C18_LowestIndexFirst ==
    [][ \A b \in Buttons :
          /\ (Polling /\ WouldReport(b)) =>
                 /\ pc' \in {"feedback", "reset"}
                 /\ pressed' <= b
                 /\ pressed' = b <=> (\A a \in 0 .. (b - 1) : ~WouldReport(a))
                 /\ pressed' < b =>
                        /\ currentButtonState'[b] = currentButtonState[b]
                        /\ lastButtonState'[b] = lastButtonState[b]
                        /\ debounceElapsed'[b] = debounceElapsed[b]
                        /\ press'[b] = press[b]
                        /\ Waiting(b)' <=> Waiting(b)
          /\ (~Polling /\ Waiting(b)) => Waiting(b)'
          /\ (~Polling /\ Waiting(b) /\ press[b] = 0 /\ press'[b] = 0 /\ pc' = "read") =>
                 (sinceInputStart' = 0 /\ Polling' /\ WouldReport(b)')
          /\ (Polling /\ Waiting(b) /\ pins[b] = LOW) => WouldReport(b)
      ]_vars
C18_Witness ==
    /\ pc = "feedback" /\ pressed = 0 /\ currentStep = 0 /\ currentLevel = 1
    /\ press[0] = 1
    /\ Waiting(1) /\ pins[1] = LOW /\ press[1] = 0

\* C19: a press is taken by one event only.  readButton returns true for c only
\* when currentButtonState[c] goes from HIGH to LOW; the entry then stays LOW
\* through every step that does not poll (feedback, game-over animation,
\* resetGame, startup sequence, playback) and goes back to HIGH only on a polling
\* pass that reads c HIGH; so the press that ended a game or restarted one is
\* not reported again, in Idle or in a step of the new game, while it is held.
C19_PressTakenOnce ==
    [][ \A c \in Buttons :
          /\ (pc' \in {"feedback", "reset"} /\ pc \in {"read", "idle"} /\ pressed' = c) =>
                 /\ pins[c] = LOW
                 /\ currentButtonState[c] = HIGH
                 /\ currentButtonState'[c] = LOW
          /\ (currentButtonState[c] = LOW /\ currentButtonState'[c] = HIGH) =>
                 (Polling /\ pins[c] = HIGH)
          /\ ~Polling => currentButtonState'[c] = currentButtonState[c]
          /\ (press[c] = 1 /\ press'[c] >= 1) =>
                 /\ currentButtonState'[c] = LOW
                 /\ pc' \in {"feedback", "reset"} => (pc = pc' \/ pressed' # c)
      ]_vars
C19_Witness ==
    /\ pc = "read" /\ currentLevel = 0 /\ currentStep = 0 /\ gameSequence[0] = 0
    /\ sinceInputStart > debounceDelay
    /\ press[0] = 1 /\ pins[0] = LOW

\* b's time stamp is still the 0 of power-up and millis() has wrapped since
Stale(b) == lastDebounceTime[b] = Zero32 /\ Less32(millis, inputStartTime)

\* C20: the unsigned 32-bit differences are the ms that have really gone by, also
\* when millis() has wrapped in between: millis() - inputStartTime is the time
\* since the step began, so the step times out at 3000 ms and not before; and
\* millis() - lastDebounceTime[b] exceeds debounceDelay only when more than
\* debounceDelay ms have gone by since the time stamp was taken, and then always
\* (unless the time stamp is a whole turn of the clock old).
C20_DifferencesSurviveWrap ==
    pc # "setup" =>
        /\ Clamp(Sub32(millis, inputStartTime)) = sinceInputStart
        /\ verdict = "timeout" <=> (pc = "gameOver")
        /\ verdict = "timeout" => sinceInputStart >= InputTimeout
        /\ pc = "feedback" =>
               /\ sinceInputStart < InputTimeout
               /\ debounceElapsed[pressed] > debounceDelay
        /\ \A b \in Buttons :
               /\ Clamp(Sub32(millis, lastDebounceTime[b])) > debounceDelay =>
                      debounceElapsed[b] > debounceDelay
               /\ (debounceElapsed[b] > debounceDelay /\ ~Stale(b)) =>
                      Clamp(Sub32(millis, lastDebounceTime[b])) > debounceDelay
               /\ debounceElapsed[b] <= debounceDelay =>
                      Clamp(Sub32(millis, lastDebounceTime[b])) = debounceElapsed[b]
C20_Witness ==
    /\ pc = "gameOver" /\ verdict = "timeout"
    /\ sinceInputStart = InputTimeout
    /\ Less32(millis, inputStartTime)
    /\ Less32(millis, lastDebounceTime[0])
    /\ debounceElapsed[0] > debounceDelay

====
